---- MODULE Spec2Model ----
(***************************************************************************)
(* A model of the data aggregation engine of the Ladino dictionary         *)
(* generator: the loader of ladino/load.py (load_dictionary and its        *)
(* checks), the older loader kept in ladino/generate.py, the translation   *)
(* coercion make_it_list, and the cross-index builder collect_data.        *)
(*                                                                         *)
(* Python values are modelled as follows.                                  *)
(*  - a dict is a function whose DOMAIN is the set of keys present, so     *)
(*    "k in d" is  k \in DOMAIN d ;                                        *)
(*  - a list is a sequence;                                                *)
(*  - a word (a Ladino or foreign string that is lowercased and sorted)    *)
(*    is a number: 1..NBase are the capitalised spellings, NBase+1..       *)
(*    2*NBase the same spellings in lower case, in the order Python's      *)
(*    string comparison gives them (every capital sorts before every       *)
(*    small letter); 0 is the empty string;                                *)
(*  - a translation value, whose class the code inspects, is a record      *)
(*    [cls, s, l]: the class name, the string and the list.                *)
(***************************************************************************)
EXTENDS Integers, Sequences, FiniteSets, TLC

VARIABLES
    config,      \* the Configuration passed to load_dictionary
    files,       \* os.listdir order: a sequence of [name, data]
    impl,        \* which load_dictionary runs: "load" (load.py) or "generate" (generate.py)
    pc,          \* "idle", "loading", "done" (returned) or "raised"
    i,           \* position of the next file of the listing
    dictionary,  \* the Dictionary under construction (words, all_examples, ...)
    objects,     \* the data object of every file read so far (mutated in place)
    err,         \* the exception that left load_dictionary, or NoError
    result,      \* <<>> until load_dictionary returns, then <<the value returned>>
    mk,          \* the calls of make_it_list: [translations, language, filename, out]
    source,      \* collect_data's dictionary_source: the flat Version sequence
    ci,          \* position of the next entry of dictionary_source
    index,       \* collect_data's dictionary: language -> word -> translations
    count,       \* collect_data's count['dictionary']
    pages,       \* collect_data's pages: language -> word -> entries
    cpc,         \* "idle", "collecting", "done" or "raised"
    cerr,        \* the exception that left collect_data, or NoError
    runs         \* what the runs of the pipeline that have ended gave, one per run

vars == <<config, files, impl, pc, i, dictionary, objects, err, result, mk,
          source, ci, index, count, pages, cpc, cerr, runs>>
loaderVars == <<config, files, impl, pc, i, dictionary, objects, err, result>>
collectVars == <<source, ci, index, count, pages, cpc, cerr>>

----------------------------------------------------------------------------
(* Bounds of the model *)

NBase == 2
MaxFiles == 2
MaxList == 2
MaxVersions == 2
MaxForms == 2
MaxEntries == 2

----------------------------------------------------------------------------
(* Python values *)

Words == 1..(2 * NBase)
EmptyStr == 0

lower(w) == IF w \in 1..NBase THEN w + NBase ELSE w

None == "<None>"

Has(d, k) == k \in DOMAIN d
Put(d, k, v) == [x \in (DOMAIN d) \cup {k} |-> IF x = k THEN v ELSE d[x]]
Opt(k, S) == {<<>>} \cup {(k :> v) : v \in S}

PyStr(s) == [cls |-> "str", s |-> s, l |-> <<>>]
PyList(l) == [cls |-> "list", s |-> EmptyStr, l |-> l]
PyObj(c) == [cls |-> c, s |-> EmptyStr, l |-> <<>>]

languages == <<"english", "french", "hebrew", "spanish", "turkish", "portuguese">>
LanguageSet == {languages[k] : k \in 1..Len(languages)}

NoError == [cls |-> "", kind |-> "", file |-> 0, value |-> "", lang |-> "", sub |-> <<>>]
LadinoError(kind, file, value, lang, sub) ==
    [cls |-> "LadinoError", kind |-> kind, file |-> file, value |-> value,
     lang |-> lang, sub |-> sub]
KeyError(key) ==
    [cls |-> "KeyError", kind |-> "", file |-> 0, value |-> key, lang |-> "", sub |-> <<>>]
IndexError ==
    [cls |-> "IndexError", kind |-> "", file |-> 0, value |-> "", lang |-> "", sub |-> <<>>]

----------------------------------------------------------------------------
(* Translation coercion: load.py make_it_list / generate.py _make_it_list *)

make_it_list_str_as_is(translations, language, filename) ==
    LET target_words == translations[language] IN
    IF target_words.cls = "str"
      THEN [err |-> NoError,
            val |-> IF target_words.s = EmptyStr THEN PyList(<<>>) ELSE target_words]
      ELSE IF target_words.cls = "list"
        THEN [err |-> NoError, val |-> target_words]
        ELSE [err |-> LadinoError("bad type", filename, target_words.cls, language,
                                  translations),
              val |-> target_words]

make_it_list(translations, language, filename) ==
    LET target_words == translations[language] IN
    IF target_words.cls = "str"
      THEN IF target_words.s = EmptyStr
             THEN [err |-> NoError, val |-> PyList(<<>>)]
             ELSE [err |-> NoError, val |-> PyList(<<target_words.s>>)]
      ELSE IF target_words.cls = "list"
        THEN [err |-> NoError, val |-> target_words]
        ELSE [err |-> LadinoError("bad type", filename, target_words.cls, language,
                                  translations),
              val |-> target_words]

RECURSIVE make_them_list_from(_, _, _)
make_them_list_from(k, translations, filename) ==
    IF k > Len(languages) THEN [err |-> NoError, translations |-> translations]
    ELSE LET language == languages[k] IN
         IF ~Has(translations, language)
           THEN make_them_list_from(k + 1, translations, filename)
           ELSE LET r == make_it_list(translations, language, filename) IN
                IF r.err # NoError
                  THEN [err |-> r.err, translations |-> translations]
                  ELSE make_them_list_from(k + 1, Put(translations, language, r.val),
                                           filename)

make_them_list(translations, filename) == make_them_list_from(1, translations, filename)

----------------------------------------------------------------------------
(* Inputs of the coercion *)

ListsUpTo(n) == UNION {[1..k -> Words] : k \in 0..n}

TranslationValues ==
    {PyStr(s) : s \in Words \cup {EmptyStr}}
      \cup {PyList(l) : l \in ListsUpTo(MaxList)}
      \cup {PyObj(c) : c \in {"int", "NoneType", "dict"}}

FileNames == 1..MaxFiles

IdleMk ==
    [input |-> <<>>, translations |-> <<>>, language |-> "", filename |-> 0, out |-> <<>>]

----------------------------------------------------------------------------
(* The Configuration: config.yaml as load_config returns it *)

Config(tiempos, pronombres) ==
    [gramatika |-> {"noun", "verb", "adjective"},
     origenes |-> {"hebrew", "spanish"},
     kategorias |-> {"animals", "colors"},
     gender |-> {"masculine", "feminine"},
     numero |-> {"singular", "plural"},
     tiempos |-> tiempos,
     pronombres |-> pronombres,
     listas |-> [basic |-> <<lower(2), 1, lower(1)>>]]

Configs ==
    {Config({"present indicative", "pasado simple"},
            {"yo", "tu", "el", "mozotros", "vozotros", "eyos"}),
     Config({"present indicative", "futuro"}, {"yo", "tu", "el", "eya"})}

Dictionary(cfg) ==
    [words |-> <<>>,
     all_examples |-> <<>>,
     all_words |-> <<>>,
     lists |-> [lst \in DOMAIN cfg.listas |-> <<>>],
     categories |-> [cat \in cfg.kategorias |-> <<>>],
     verbs |-> <<>>]

----------------------------------------------------------------------------
(* The checks of load.py.  A check returns the exception it raises (NoError *)
(* when it returns normally), together with the dictionary it has changed. *)
(* all_words, verbs, categories and lists hold the data objects by          *)
(* reference: the model keeps the file name, and the object in objects.     *)

RECURSIVE check_noun_versions_number_first(_, _, _, _)
check_noun_versions_number_first(cfg, versions, k, filename) ==
    IF k > Len(versions) THEN NoError
    ELSE LET version == versions[k]
             gender == IF Has(version, "gender") THEN version.gender ELSE None
             number == IF Has(version, "number") THEN version.number ELSE None
         IN IF number = None
              THEN LadinoError("number is None", filename, "", "", version)
            ELSE IF number \notin cfg.numero
              THEN LadinoError("invalid number", filename, number, "", version)
            ELSE IF gender = None
              THEN LadinoError("gender is None", filename, "", "", version)
            ELSE IF gender \notin cfg.gender
              THEN LadinoError("invalid gender", filename, gender, "", version)
            ELSE check_noun_versions_number_first(cfg, versions, k + 1, filename)

RECURSIVE check_noun_versions(_, _, _, _)
check_noun_versions(cfg, versions, k, filename) ==
    IF k > Len(versions) THEN NoError
    ELSE LET version == versions[k]
             gender == IF Has(version, "gender") THEN version.gender ELSE None
             number == IF Has(version, "number") THEN version.number ELSE None
         IN IF gender = None
              THEN LadinoError("gender is None", filename, "", "", version)
            ELSE IF gender \notin cfg.gender
              THEN LadinoError("invalid gender", filename, gender, "", version)
            ELSE IF number = None
              THEN LadinoError("number is None", filename, "", "", version)
            ELSE IF number \notin cfg.numero
              THEN LadinoError("invalid number", filename, number, "", version)
            ELSE check_noun_versions(cfg, versions, k + 1, filename)

check_conjugations_field_verb_only(grammar, data, filename) ==
    IF grammar = "verb" /\ ~Has(data, "conjugations")
      THEN LadinoError("verb without conjugations", filename, "", "", <<>>)
    ELSE NoError

check_conjugations_field(grammar, data, filename) ==
    IF grammar = "verb" /\ ~Has(data, "conjugations")
      THEN LadinoError("verb without conjugations", filename, "", "", <<>>)
    ELSE IF grammar # "verb" /\ Has(data, "conjugations")
      THEN LadinoError("conjugations in non-verb", filename, "", "", <<>>)
    ELSE NoError

check_and_collect_grammar(cfg, data, dict, filename) ==
    IF ~Has(data, "grammar")
      THEN [dictionary |-> dict,
            err |-> LadinoError("grammar missing", filename, "", "", <<>>)]
    ELSE LET grammar == data.grammar IN
    IF grammar \notin cfg.gramatika
      THEN [dictionary |-> dict,
            err |-> LadinoError("invalid grammar", filename, grammar, "", <<>>)]
    ELSE IF check_conjugations_field(grammar, data, filename) # NoError
      THEN [dictionary |-> dict,
            err |-> check_conjugations_field(grammar, data, filename)]
    ELSE IF grammar = "noun" /\ ~Has(data, "versions")
      THEN [dictionary |-> dict, err |-> KeyError("versions")]
    ELSE IF grammar = "noun"
            /\ check_noun_versions(cfg, data.versions, 1, filename) # NoError
      THEN [dictionary |-> dict,
            err |-> check_noun_versions(cfg, data.versions, 1, filename)]
    ELSE IF grammar = "verb"
      THEN [dictionary |-> [dict EXCEPT !.verbs = Append(@, filename)],
            err |-> NoError]
    ELSE [dictionary |-> dict, err |-> NoError]

check_origen(cfg, data, filename) ==
    IF ~Has(data, "origen")
      THEN LadinoError("origen missing", filename, "", "", <<>>)
    ELSE IF data.origen \notin cfg.origenes
      THEN LadinoError("invalid origen", filename, data.origen, "", <<>>)
    ELSE NoError

RECURSIVE collect_categories_from(_, _, _, _, _)
collect_categories_from(k, cats, cfg, filename, dict) ==
    IF k > Len(cats) THEN [dictionary |-> dict, err |-> NoError]
    ELSE IF cats[k] \notin cfg.kategorias
      THEN [dictionary |-> dict,
            err |-> LadinoError("invalid category", filename, cats[k], "", <<>>)]
    ELSE collect_categories_from(k + 1, cats, cfg, filename,
             [dict EXCEPT !.categories[cats[k]] = Append(@, filename)])

check_and_collect_categories(cfg, data, filename, dict) ==
    IF ~Has(data, "kategorias") THEN [dictionary |-> dict, err |-> NoError]
    ELSE collect_categories_from(1, data.kategorias, cfg, filename, dict)

InList(listed_words, w) == \E k \in 1..Len(listed_words) : listed_words[k] = w

check_and_collect_lists(cfg, data, dict, filename) ==
    IF ~Has(data, "versions") THEN [dictionary |-> dict, err |-> NoError]
    ELSE IF Len(data.versions) = 0 THEN [dictionary |-> dict, err |-> IndexError]
    ELSE [dictionary |->
            [dict EXCEPT !.lists =
               [lst \in DOMAIN cfg.listas |->
                  IF Has(data.versions[1], "ladino")
                     /\ InList(cfg.listas[lst], data.versions[1].ladino)
                    THEN Append(dict.lists[lst], filename)
                    ELSE dict.lists[lst]]],
          err |-> NoError]

----------------------------------------------------------------------------
(* Normalisation: the loop over data['versions'] and over the conjugations. *)
(* An example is [cls, s, d]: a dict d (cls "dict") or a bare string s.     *)
(* The local variables examples and comments are None or a non-empty list:  *)
(* the empty sequence stands for None.                                      *)

ExampleDict(d) == [cls |-> "dict", s |-> EmptyStr, d |-> d]
ExampleStr(s) == [cls |-> "str", s |-> s, d |-> <<>>]

\* load.py 140-150: the checks of the examples and the entries of all_examples
RECURSIVE collect_examples(_, _, _, _, _, _)
collect_examples(k, examples, word, filename, all_examples, checked) ==
    IF k > Len(examples) THEN [all_examples |-> all_examples, err |-> NoError]
    ELSE LET example == examples[k] IN
    IF checked /\ example.cls = "str"
      THEN [all_examples |-> all_examples,
            err |-> LadinoError("example is a string", filename, "", "", example)]
    ELSE IF checked /\ \E language \in DOMAIN example.d :
                          language \notin {"ladino", "bozes"} \cup LanguageSet
      THEN [all_examples |-> all_examples,
            err |-> LadinoError("incorrect language in example", filename,
                      CHOOSE language \in DOMAIN example.d :
                          language \notin {"ladino", "bozes"} \cup LanguageSet,
                      "", example)]
    ELSE collect_examples(k + 1, examples, word, filename,
             Append(all_examples,
                    [example |-> example, word |-> lower(word), source |-> filename]),
             checked)

\* load.py 151 and 154: "examples = None", "comments = None" once attached
consumed_kept(attached) == attached

consumed(attached) == <<>>

\* The loop "for version in data['versions']" of both loaders; checked is TRUE
\* for load.py, whose loop checks the examples, and FALSE for generate.py.
RECURSIVE load_versions(_, _, _, _, _, _, _)
load_versions(k, versions, examples, comments, dict, filename, checked) ==
    IF k > Len(versions)
      THEN [versions |-> versions, dictionary |-> dict, err |-> NoError]
    ELSE IF ~Has(versions[k], "ladino")
      THEN [versions |-> versions, dictionary |-> dict,
            err |-> LadinoError("version without ladino", filename, "", "", <<>>)]
    ELSE
      LET v1 == Put(versions[k], "source", filename)
          t == IF Has(v1, "translations")
                 THEN make_them_list(v1.translations, filename)
                 ELSE [err |-> NoError, translations |-> <<>>]
          v2 == IF Has(v1, "translations")
                  THEN Put(v1, "translations", t.translations) ELSE v1
          v3 == IF examples # <<>> THEN Put(v2, "examples", examples) ELSE v2
          ex == IF examples # <<>>
                  THEN collect_examples(1, examples, v3.ladino, filename,
                                        dict.all_examples, checked)
                  ELSE [all_examples |-> dict.all_examples, err |-> NoError]
          v4 == IF comments # <<>> THEN Put(v3, "comments", comments) ELSE v3
      IN IF t.err # NoError
           THEN [versions |-> [versions EXCEPT ![k] = v2], dictionary |-> dict,
                 err |-> t.err]
         ELSE IF ex.err # NoError
           THEN [versions |-> [versions EXCEPT ![k] = v3],
                 dictionary |-> [dict EXCEPT !.all_examples = ex.all_examples],
                 err |-> ex.err]
         ELSE load_versions(k + 1, [versions EXCEPT ![k] = v4],
                  consumed(examples), consumed(comments),
                  [dict EXCEPT !.all_examples = ex.all_examples,
                               !.words = Append(@, v4)],
                  filename, checked)

\* A mapping of the conjugations keeps its insertion order: data['conjugations']
\* is a sequence of [tense, forms], forms a sequence of [pronoun, version].
RECURSIVE load_pronouns(_, _, _, _, _, _)
load_pronouns(p, forms, verb_time, pronouns, words, filename) ==
    IF p > Len(forms) THEN [forms |-> forms, words |-> words, err |-> NoError]
    ELSE LET pronoun == forms[p].pronoun
             version == forms[p].version
         IN
    IF pronoun \notin pronouns
      THEN [forms |-> forms, words |-> words,
            err |-> LadinoError("incorrect pronoun", filename, pronoun, verb_time, <<>>)]
    ELSE IF ~Has(version, "ladino")
      THEN [forms |-> forms, words |-> words,
            err |-> LadinoError("conjugation without ladino", filename, pronoun,
                                verb_time, <<>>)]
    ELSE
      LET v1 == Put(version, "source", filename)
          t == IF Has(v1, "translations")
                 THEN make_them_list(v1.translations, filename)
                 ELSE [err |-> NoError, translations |-> <<>>]
          v2 == IF Has(v1, "translations")
                  THEN Put(v1, "translations", t.translations) ELSE v1
      IN IF t.err # NoError
           THEN [forms |-> [forms EXCEPT ![p].version = v2], words |-> words,
                 err |-> t.err]
         ELSE load_pronouns(p + 1, [forms EXCEPT ![p].version = v2], verb_time,
                            pronouns, Append(words, v2), filename)

\* the loop of load.py 160 going through the tenses from the last to the first
RECURSIVE load_conjugations_last_first(_, _, _, _, _, _)
load_conjugations_last_first(t, conjs, conjugations, pronouns, words, filename) ==
    IF t > Len(conjs) THEN [conjugations |-> conjs, words |-> words, err |-> NoError]
    ELSE LET u == Len(conjs) + 1 - t
             verb_time == conjs[u].tense IN
    IF verb_time \notin conjugations
      THEN [conjugations |-> conjs, words |-> words,
            err |-> LadinoError("conjugation time not recognized", filename,
                                verb_time, "", <<>>)]
    ELSE LET r == load_pronouns(1, conjs[u].forms, verb_time, pronouns, words, filename)
         IN IF r.err # NoError
              THEN [conjugations |-> [conjs EXCEPT ![u].forms = r.forms],
                    words |-> r.words, err |-> r.err]
              ELSE load_conjugations_last_first(t + 1,
                       [conjs EXCEPT ![u].forms = r.forms],
                       conjugations, pronouns, r.words, filename)

RECURSIVE load_conjugations(_, _, _, _, _, _)
load_conjugations(t, conjs, conjugations, pronouns, words, filename) ==
    IF t > Len(conjs) THEN [conjugations |-> conjs, words |-> words, err |-> NoError]
    ELSE LET verb_time == conjs[t].tense IN
    IF verb_time \notin conjugations
      THEN [conjugations |-> conjs, words |-> words,
            err |-> LadinoError("conjugation time not recognized", filename,
                                verb_time, "", <<>>)]
    ELSE LET r == load_pronouns(1, conjs[t].forms, verb_time, pronouns, words, filename)
         IN IF r.err # NoError
              THEN [conjugations |-> [conjs EXCEPT ![t].forms = r.forms],
                    words |-> r.words, err |-> r.err]
              ELSE load_conjugations(t + 1, [conjs EXCEPT ![t].forms = r.forms],
                                     conjugations, pronouns, r.words, filename)

\* load.py 122-172, generate.py 246-291: what follows the checks of one file.
\* Returns the data object as the loops have changed it, the dictionary and
\* the exception.
normalize(data, dict, filename, conjugations, pronouns, checked) ==
    LET examples == data.examples
        comments == IF Has(data, "comments") THEN data.comments ELSE <<>>
        vs == load_versions(1, data.versions, examples, comments, dict, filename,
                            checked)
        data1 == Put(data, "versions", vs.versions)
        cj == IF Has(data, "conjugations")
                THEN load_conjugations(1, data.conjugations, conjugations, pronouns,
                                       vs.dictionary.words, filename)
                ELSE [conjugations |-> <<>>, words |-> vs.dictionary.words,
                      err |-> NoError]
        data2 == IF Has(data, "conjugations")
                   THEN Put(data1, "conjugations", cj.conjugations) ELSE data1
    IN IF vs.err # NoError
         THEN [data |-> data1, dictionary |-> vs.dictionary, err |-> vs.err]
         ELSE [data |-> data2,
               dictionary |-> [vs.dictionary EXCEPT !.words = cj.words],
               err |-> cj.err]

----------------------------------------------------------------------------
(* One pass of the loop of load_dictionary over one file *)

VersionsMissing(filename) == LadinoError("versions missing", filename, "", "", <<>>)
ExamplesMissing(filename) == LadinoError("examples missing", filename, "", "", <<>>)

\* load.py 109-172
load_dictionary_file(cfg, dict, filename, data) ==
    LET g == check_and_collect_grammar(cfg, data,
                 [dict EXCEPT !.all_words = Append(@, filename)], filename)
        o == check_origen(cfg, data, filename)
        c == check_and_collect_categories(cfg, data, filename, g.dictionary)
        l == check_and_collect_lists(cfg, data, c.dictionary, filename)
    IN IF g.err # NoError
         THEN [data |-> data, dictionary |-> g.dictionary, err |-> g.err]
       ELSE IF o # NoError
         THEN [data |-> data, dictionary |-> g.dictionary, err |-> o]
       ELSE IF c.err # NoError
         THEN [data |-> data, dictionary |-> c.dictionary, err |-> c.err]
       ELSE IF l.err # NoError
         THEN [data |-> data, dictionary |-> l.dictionary, err |-> l.err]
       ELSE IF ~Has(data, "versions")
         THEN [data |-> data, dictionary |-> l.dictionary,
               err |-> VersionsMissing(filename)]
       ELSE IF ~Has(data, "examples")
         THEN [data |-> data, dictionary |-> l.dictionary,
               err |-> ExamplesMissing(filename)]
       ELSE normalize(data, l.dictionary, filename, cfg.tiempos, cfg.pronombres, TRUE)

\* generate.py 196-202
check_grammar(cfg, data, filename) ==
    IF ~Has(data, "grammar")
      THEN LadinoError("grammar missing", filename, "", "", <<>>)
    ELSE IF data.grammar \notin cfg.gramatika
      THEN LadinoError("invalid grammar", filename, data.grammar, "", <<>>)
    ELSE NoError

\* generate.py 182-187
check_categories(cfg, data, filename) ==
    IF ~Has(data, "categories") THEN NoError
    ELSE IF \E k \in 1..Len(data.categories) : data.categories[k] \notin cfg.kategorias
      THEN LET k == CHOOSE k \in 1..Len(data.categories) :
                      /\ data.categories[k] \notin cfg.kategorias
                      /\ \A j \in 1..(k - 1) : data.categories[j] \in cfg.kategorias
           IN LadinoError("invalid category", filename, data.categories[k], "", <<>>)
    ELSE NoError

\* generate.py 276-277
generate_conjugations == {"present indicative", "pasado simple"}
generate_pronouns == {"yo", "tu", "el", "mozotros", "vozotros", "eyos"}

\* generate.py 219-291
generate_load_dictionary_file(cfg, dict, filename, data) ==
    LET raise(e) == [data |-> data, dictionary |-> dict, err |-> e] IN
    IF check_grammar(cfg, data, filename) # NoError
      THEN raise(check_grammar(cfg, data, filename))
    ELSE IF check_origen(cfg, data, filename) # NoError
      THEN raise(check_origen(cfg, data, filename))
    ELSE IF check_categories(cfg, data, filename) # NoError
      THEN raise(check_categories(cfg, data, filename))
    ELSE IF ~Has(data, "versions")
      THEN raise(VersionsMissing(filename))
    ELSE IF check_conjugations_field(data.grammar, data, filename) # NoError
      THEN raise(check_conjugations_field(data.grammar, data, filename))
    ELSE IF data.grammar = "noun"
            /\ check_noun_versions(cfg, data.versions, 1, filename) # NoError
      THEN raise(check_noun_versions(cfg, data.versions, 1, filename))
    ELSE IF ~Has(data, "examples")
      THEN raise(ExamplesMissing(filename))
    ELSE normalize(data, dict, filename, generate_conjugations, generate_pronouns,
                   FALSE)

----------------------------------------------------------------------------
(* The sorts that end load_dictionary (load.py 175-179) *)

\* Python's comparison of two lists of strings
LexLess(a, b) ==
    \E k \in 1..Len(b) :
        /\ \A j \in 1..(k - 1) : j <= Len(a) /\ a[j] = b[j]
        /\ (k > Len(a) \/ a[k] < b[k])

\* list.sort(key=...): stable, by a strict order Less on the elements
SortBy(seq, Less(_, _)) ==
    LET rank(a) == Cardinality({b \in 1..Len(seq) :
                        \/ Less(seq[b], seq[a])
                        \/ (~Less(seq[a], seq[b]) /\ b < a)}) + 1
    IN [r \in 1..Len(seq) |-> seq[CHOOSE a \in 1..Len(seq) : rank(a) = r]]

\* the key of the sort of a category: (ladino, english) of the first version
CategoryKeyError(objs, refs) ==
    IF \E k \in 1..Len(refs) : ~Has(objs[refs[k]].versions[1], "translations")
      THEN KeyError("translations")
    ELSE IF \E k \in 1..Len(refs) :
                ~Has(objs[refs[k]].versions[1].translations, "english")
      THEN KeyError("english")
    ELSE NoError

CategoryLess(objs, a, b) ==
    LET va == objs[a].versions[1]
        vb == objs[b].versions[1]
    IN \/ va.ladino < vb.ladino
       \/ /\ va.ladino = vb.ladino
          /\ LexLess(va.translations.english.l, vb.translations.english.l)

\* lookup = {word: ix for ix, word in enumerate(config['listas'][lst])}
lookup(listed_words, word) ==
    CHOOSE ix \in 1..Len(listed_words) :
        /\ listed_words[ix] = word
        /\ \A j \in (ix + 1)..Len(listed_words) : listed_words[j] # word

\* the lists sorted by the headword itself, not by its place in the curated list
ListLess_by_headword(objs, listed_words, a, b) ==
    objs[a].versions[1].ladino < objs[b].versions[1].ladino

ListLess(objs, listed_words, a, b) ==
    lookup(listed_words, objs[a].versions[1].ladino)
        < lookup(listed_words, objs[b].versions[1].ladino)

sort_groupings(cfg, dict, objs) ==
    LET bad == {cat \in DOMAIN dict.categories :
                   CategoryKeyError(objs, dict.categories[cat]) # NoError}
    IN IF bad # {}
         THEN [dictionary |-> dict,
               err |-> CategoryKeyError(objs, dict.categories[CHOOSE cat \in bad : TRUE])]
         ELSE [dictionary |->
                 [dict EXCEPT
                    !.categories = [cat \in DOMAIN dict.categories |->
                        LET Less(a, b) == CategoryLess(objs, a, b)
                        IN SortBy(dict.categories[cat], Less)],
                    !.lists = [lst \in DOMAIN dict.lists |->
                        LET Less(a, b) == ListLess(objs, cfg.listas[lst], a, b)
                        IN SortBy(dict.lists[lst], Less)]],
               err |-> NoError]

----------------------------------------------------------------------------
(* The record files the model reads.  A record is the dict safe_load gives. *)

SeqsOf(S, lo, hi) == UNION {[1..k -> S] : k \in lo..hi}

Ex1 == ExampleDict([ladino |-> 1, english |-> 2])
Ex2 == ExampleDict([ladino |-> 2, bozes |-> 1])
ExNoLadino == ExampleDict([english |-> 1])
ExBadKey == ExampleDict([ladino |-> 1, klingon |-> 2])
ExBare == ExampleStr(1)

OkVersion ==
    [ladino |-> 1, gender |-> "masculine", number |-> "singular",
     translations |-> [english |-> PyStr(lower(2))]]

Form(p, v) == [pronoun |-> p, version |-> v]
OkConjugations ==
    <<[tense |-> "present indicative", forms |-> <<Form("yo", [ladino |-> lower(1)])>>]>>

\* every combination of the fields the checks read
RecordsChecks ==
    {g @@ c @@ o @@ k @@ v @@ e :
        g \in Opt("grammar", {"noun", "verb", "adjective", "Strange"}),
        c \in Opt("conjugations", {OkConjugations}),
        o \in Opt("origen", {"hebrew", "Strange"}),
        k \in Opt("kategorias", {<<"animals">>, <<"Strange">>})
                \cup Opt("categories", {<<"animals">>, <<"Strange">>}),
        v \in Opt("versions",
                  {<<OkVersion>>,
                   <<[ladino |-> 1, translations |-> [english |-> PyStr(2)]]>>,
                   <<[ladino |-> 1, gender |-> "masculine", number |-> "countless",
                      translations |-> [english |-> PyStr(2)]]>>}),
        e \in Opt("examples", {<<>>, <<Ex1>>})}

\* nouns: every gender and number of every version
NounVersions ==
    {[ladino |-> 1, translations |-> [english |-> PyStr(2)]] @@ g @@ n :
        g \in Opt("gender", {None, "masculine", "droid"}),
        n \in Opt("number", {None, "singular", "countless"})}

RecordsNouns ==
    {[grammar |-> "noun", origen |-> "hebrew", examples |-> <<>>, versions |-> vs] :
        vs \in SeqsOf(NounVersions, 1, MaxVersions)}

\* verbs: the tenses, the pronouns and the conjugated forms
Tenses == {"present indicative", "pasado simple", "futuro", "other"}
Pronouns == {"yo", "eya", "you"}
ConjugatedVersions ==
    {[ladino |-> lower(1)],
     [ladino |-> 2, translations |-> [english |-> PyStr(1)]],
     [translations |-> [english |-> PyStr(1)]]}

FormLists ==
    {fs \in SeqsOf({Form(p, v) : p \in Pronouns, v \in ConjugatedVersions}, 1, MaxForms) :
        \A a, b \in 1..Len(fs) : a # b => fs[a].pronoun # fs[b].pronoun}

ConjugationsOpts ==
    {<<[tense |-> t, forms |-> fs]>> : t \in Tenses, fs \in FormLists}
      \cup {<<[tense |-> tt[1], forms |-> <<Form(p1, [ladino |-> lower(1)])>>],
              [tense |-> tt[2], forms |-> <<Form(p2, [ladino |-> 2])>>]>> :
                tt \in {x \in Tenses \X Tenses : x[1] # x[2]},
                p1 \in {"yo", "you"}, p2 \in {"yo", "you"}}

RecordsVerbs ==
    {[grammar |-> "verb", origen |-> "spanish", conjugations |-> cj, examples |-> e,
      versions |-> <<[ladino |-> 1, translations |-> [english |-> PyStr(2)]]>>] @@ cm :
        cj \in ConjugationsOpts, e \in {<<>>, <<Ex1>>}, cm \in Opt("comments", {<<1>>})}

\* the versions, examples, comments and categories of an adjective
PlainVersions ==
    {[ladino |-> 1, translations |-> [english |-> PyStr(lower(2))]],
     [ladino |-> lower(1),
      translations |-> [english |-> PyList(<<2, 1>>), french |-> PyStr(EmptyStr)]],
     [ladino |-> 2],
     [ladino |-> 1, translations |-> [english |-> PyObj("int")]],
     [translations |-> [english |-> PyStr(1)]],
     [ladino |-> 2, translations |-> [english |-> PyStr(1), arabic |-> PyStr(2)]],
     [ladino |-> lower(2), accented |-> 2,
      translations |-> [english |-> PyList(<<1>>), spanish |-> PyStr(1)]]}

RecordsPlain ==
    {[grammar |-> "adjective", origen |-> "hebrew", versions |-> vs, examples |-> e]
        @@ cm @@ k :
        vs \in SeqsOf(PlainVersions, 1, MaxVersions),
        e \in {<<>>, <<Ex1>>, <<Ex2, Ex1>>, <<ExBare>>, <<Ex1, ExBadKey>>},
        cm \in Opt("comments", {<<>>, <<1>>}),
        k \in Opt("kategorias", {<<"animals">>, <<"colors", "animals">>})}

Records == RecordsChecks \cup RecordsNouns \cup RecordsVerbs \cup RecordsPlain

\* the records of the directories of several files
DirRecords ==
    {[grammar |-> "adjective", origen |-> "hebrew", examples |-> <<Ex1>>,
      kategorias |-> <<"animals">>,
      versions |-> <<[ladino |-> w, translations |-> [english |-> PyStr(2)]]>>] :
        w \in {1, lower(2)}}
      \cup {[grammar |-> "noun", origen |-> "hebrew", examples |-> <<Ex2>>,
              kategorias |-> <<"animals">>, versions |-> <<OkVersion>>],
             [grammar |-> "verb", origen |-> "spanish", examples |-> <<>>,
              conjugations |-> OkConjugations,
              versions |-> <<[ladino |-> lower(1),
                              translations |-> [english |-> PyStr(1)]]>>],
             [origen |-> "hebrew", examples |-> <<>>, versions |-> <<[ladino |-> 1]>>],
             [grammar |-> "noun", origen |-> "hebrew", examples |-> <<>>],
             [grammar |-> "adjective", origen |-> "Strange", examples |-> <<>>,
              versions |-> <<[ladino |-> 1]>>],
             [grammar |-> "adjective", origen |-> "hebrew", examples |-> <<>>,
              kategorias |-> <<"colors">>, versions |-> <<[ladino |-> 2]>>]}

\* os.listdir: the file at position k is named k
Listing(records) == [k \in 1..Len(records) |-> [name |-> k, data |-> records[k]]]

Directories ==
    {Listing(<<r>>) : r \in Records}
      \cup {Listing(rs) : rs \in SeqsOf(DirRecords, 0, MaxFiles)}

----------------------------------------------------------------------------
(* load_dictionary as a state machine: one step per file, one for the end *)

IdleCollect ==
    /\ source = <<>> /\ ci = 0 /\ index = <<>> /\ count = <<>> /\ pages = <<>>
    /\ cpc = "idle" /\ cerr = NoError

Init ==
    /\ config \in Configs
    /\ impl \in {"load", "generate"}
    /\ files \in Directories
    /\ pc = "loading"
    /\ i = 1
    /\ dictionary = IF impl = "load" THEN Dictionary(config)
                                     ELSE [words |-> <<>>, all_examples |-> <<>>]
    /\ objects = <<>>
    /\ err = NoError
    /\ result = <<>>
    /\ mk = IdleMk
    /\ runs = <<>>
    /\ IdleCollect

Step(r) ==
    /\ dictionary' = r.dictionary
    /\ objects' = Put(objects, files[i].name, r.data)
    /\ IF r.err = NoError
         THEN i' = i + 1 /\ UNCHANGED <<pc, err>>
         ELSE pc' = "raised" /\ err' = r.err /\ UNCHANGED i
    /\ UNCHANGED <<config, files, impl, result, mk, runs>>
    /\ UNCHANGED collectVars

\* load.py 103-172: the body of "for filename in files"
LoadFile ==
    /\ pc = "loading" /\ impl = "load" /\ i <= Len(files)
    /\ Step(load_dictionary_file(config, dictionary, files[i].name, files[i].data))

\* load.py 175-181: the loop has ended
LoadReturn ==
    /\ pc = "loading" /\ impl = "load" /\ i > Len(files)
    /\ LET r == sort_groupings(config, dictionary, objects) IN
        /\ dictionary' = r.dictionary
        /\ IF r.err = NoError
             THEN pc' = "done" /\ result' = <<r.dictionary>> /\ UNCHANGED err
             ELSE pc' = "raised" /\ err' = r.err /\ UNCHANGED result
    /\ UNCHANGED <<config, files, impl, i, objects, mk, runs>>
    /\ UNCHANGED collectVars

\* generate.py 213-291
GenerateLoadFile ==
    /\ pc = "loading" /\ impl = "generate" /\ i <= Len(files)
    /\ Step(generate_load_dictionary_file(config, dictionary, files[i].name,
                                          files[i].data))

\* generate.py 293
GenerateLoadReturn ==
    /\ pc = "loading" /\ impl = "generate" /\ i > Len(files)
    /\ pc' = "done"
    /\ result' = <<dictionary>>
    /\ UNCHANGED <<config, files, impl, i, dictionary, objects, err, mk, runs>>
    /\ UNCHANGED collectVars

Next == LoadFile \/ LoadReturn \/ GenerateLoadFile \/ GenerateLoadReturn

Spec == Init /\ [][Next]_vars

----------------------------------------------------------------------------
(* The cross-index builder: generate.py collect_data and its helpers *)

Range(seq) == {seq[k] : k \in 1..Len(seq)}

\* sorted(set(...)) of words
SortedSet(S) ==
    [r \in 1..Cardinality(S) |-> CHOOSE x \in S : Cardinality({y \in S : y < x}) = r - 1]

RECURSIVE SumFn(_)
SumFn(f) ==
    IF DOMAIN f = {} THEN 0
    ELSE LET k == CHOOSE k \in DOMAIN f : TRUE
         IN f[k] + SumFn([x \in (DOMAIN f) \ {k} |-> f[x]])

\* len(json.dumps(x, sort_keys=True)): strings in quotes, ", " and ": " between
WordLen(w) == IF w = EmptyStr THEN 0 ELSE 4 + ((w - 1) % NBase)
JsonStr(n) == n + 2
JsonList(sizes) ==
    2 + SumFn(sizes) + (IF Len(sizes) > 1 THEN 2 * (Len(sizes) - 1) ELSE 0)
JsonDict(sizes) ==
    2 + SumFn([k \in DOMAIN sizes |-> Len(k) + 4 + sizes[k]])
      + (IF Cardinality(DOMAIN sizes) > 1 THEN 2 * (Cardinality(DOMAIN sizes) - 1) ELSE 0)
JsonWords(l) == JsonList([k \in 1..Len(l) |-> JsonStr(WordLen(l[k]))])
JsonExample(example) ==
    IF example.cls = "str" THEN JsonStr(WordLen(example.s))
    ELSE JsonDict([k \in DOMAIN example.d |-> JsonStr(WordLen(example.d[k]))])
JsonField(k, v) ==
    CASE k \in {"ladino", "accented"} -> JsonStr(WordLen(v))
      [] k \in {"gender", "number"} -> IF v = None THEN 4 ELSE JsonStr(Len(v))
      [] k = "source" -> JsonStr(Len("1.yaml"))
      [] k = "translations" -> JsonDict([t \in DOMAIN v |-> JsonWords(v[t].l)])
      [] k = "examples" -> JsonList([e \in 1..Len(v) |-> JsonExample(v[e])])
      [] k = "comments" -> JsonWords(v)
      [] k = "alternative-spelling" ->
           JsonList([a \in 1..Len(v) |->
                       JsonDict([f \in DOMAIN v[a] |-> JsonStr(WordLen(v[a][f]))])])
json_len(x) == JsonDict([k \in DOMAIN x |-> JsonField(k, x[k])])

\* _add_word without line 299: the targets are appended and left as they come
_add_word_extend_only(dict, source_language, target_language, source_word, target_words) ==
    LET old == IF Has(dict[source_language][source_word], target_language)
                 THEN dict[source_language][source_word][target_language]
                 ELSE <<>>
    IN [dict EXCEPT ![source_language] =
           Put(@, source_word, Put(@[source_word], target_language, old \o target_words))]

\* generate.py 295-299; dict is collect_data's dictionary
_add_word(dict, source_language, target_language, source_word, target_words) ==
    LET old == IF Has(dict[source_language][source_word], target_language)
                 THEN dict[source_language][source_word][target_language]
                 ELSE <<>>
        new == SortedSet(Range(old) \cup Range(target_words))
    IN [dict EXCEPT ![source_language] =
           Put(@, source_word, Put(@[source_word], target_language, new))]

RECURSIVE _add_words(_, _, _, _)
_add_words(dict, word, translations, todo) ==
    IF todo = {} THEN dict
    ELSE LET target_language == CHOOSE t \in todo : TRUE
         IN _add_words(_add_word(dict, "ladino", target_language, word,
                                 translations[target_language].l),
                       word, translations, todo \ {target_language})

\* generate.py 320: the key of the sort of a Ladino page
ladino_page_less(a, b) ==
    \/ a.ladino < b.ladino
    \/ /\ a.ladino = b.ladino
       /\ a.translations.english.l[1] < b.translations.english.l[1]

sort_ladino_page_omitted(page) == page

sort_ladino_page(page) == SortBy(page, ladino_page_less)

\* the exception of the key of the sort, raised for the entry just appended
LadinoPageKeyError(entry) ==
    IF ~Has(entry.translations, "english") THEN KeyError("english")
    ELSE IF Len(entry.translations.english.l) = 0 THEN IndexError
    ELSE NoError

\* generate.py 301-323.  st is [index, pages, count, err]; accented_word is
\* EmptyStr when entry.get('accented') is None or '' (both are false).
_add_ladino_word(original_word, accented_word, st, entry) ==
    LET word == lower(original_word)
        examples == IF Has(entry, "examples") THEN entry.examples ELSE <<>>
        with_ladino == {k \in 1..Len(examples) :
                           examples[k].cls = "dict" /\ Has(examples[k].d, "ladino")}
        count1 == [st.count EXCEPT
                      !.ladino.words = @ + 1,
                      !.ladino.examples = @ + Cardinality(with_ladino)]
        index1 == IF Has(st.index.ladino, word) THEN st.index
                  ELSE [st.index EXCEPT !.ladino = Put(@, word, <<>>)]
    IN IF ~Has(entry, "translations")
         THEN [index |-> index1, pages |-> st.pages, count |-> count1,
               err |-> KeyError("translations")]
       ELSE
         LET index2 == _add_words(index1, word, entry.translations,
                                  DOMAIN entry.translations)
             index3 == _add_word(index2, "ladino", "ladino", word, <<original_word>>)
             page == Append(IF Has(st.pages.ladino, word) THEN st.pages.ladino[word]
                                                          ELSE <<>>, entry)
         IN IF LadinoPageKeyError(entry) # NoError
              THEN [index |-> index3,
                    pages |-> [st.pages EXCEPT !.ladino = Put(@, word, page)],
                    count |-> count1, err |-> LadinoPageKeyError(entry)]
              ELSE [index |-> IF accented_word # EmptyStr
                                THEN _add_word(index3, "ladino", "accented", word,
                                               <<accented_word>>)
                                ELSE index3,
                    pages |-> [st.pages EXCEPT
                                  !.ladino = Put(@, word, sort_ladino_page(page))],
                    count |-> count1, err |-> NoError]

foreign_page_less(a, b) == json_len(a) < json_len(b)

\* generate.py 331-342: the loop over the translations of one language
RECURSIVE _add_translated_from(_, _, _, _, _)
_add_translated_from(k, translations, source_language, st, entry) ==
    IF k > Len(translations) THEN st
    ELSE LET word == lower(translations[k])
             old == IF Has(st.index[source_language], word)
                      THEN st.index[source_language][word] ELSE <<>>
             page == Append(IF Has(st.pages[source_language], word)
                              THEN st.pages[source_language][word] ELSE <<>>, entry)
         IN _add_translated_from(k + 1, translations, source_language,
                [index |-> [st.index EXCEPT ![source_language] =
                               Put(@, word, SortedSet(Range(old) \cup {entry.ladino}))],
                 pages |-> [st.pages EXCEPT ![source_language] =
                               Put(@, word, SortBy(page, foreign_page_less))],
                 count |-> [st.count EXCEPT ![source_language].words = @ + 1],
                 err |-> NoError],
                entry)

\* generate.py 325-342
_add_translated_words(source_language, st, entry) ==
    IF ~Has(entry.translations, source_language) THEN st
    ELSE _add_translated_from(1, entry.translations[source_language].l,
                              source_language, st, entry)

\* generate.py 363-365
RECURSIVE add_alternative_spellings(_, _, _, _)
add_alternative_spellings(k, alts, st, entry) ==
    IF k > Len(alts) \/ st.err # NoError THEN st
    ELSE add_alternative_spellings(k + 1, alts,
             _add_ladino_word(alts[k].ladino,
                              IF Has(alts[k], "accented") THEN alts[k].accented
                                                          ELSE EmptyStr,
                              st, entry),
             entry)

\* generate.py 367-368
RECURSIVE add_all_translated(_, _, _)
add_all_translated(k, st, entry) ==
    IF k > Len(languages) THEN st
    ELSE add_all_translated(k + 1, _add_translated_words(languages[k], st, entry), entry)

\* generate.py 360-368: the body of "for entry in dictionary_source"
collect_entry(st, entry) ==
    LET st1 == _add_ladino_word(entry.ladino,
                   IF Has(entry, "accented") THEN entry.accented ELSE EmptyStr,
                   st, entry)
        st2 == IF Has(entry, "alternative-spelling")
                 THEN add_alternative_spellings(1, entry["alternative-spelling"], st1,
                                                entry)
                 ELSE st1
    IN IF st1.err # NoError THEN st1
       ELSE IF st2.err # NoError THEN st2
       ELSE add_all_translated(1, st2, entry)

AllLanguages == {"ladino"} \cup LanguageSet

\* generate.py 347-358
EmptyCount == [language \in AllLanguages |-> [words |-> 0, examples |-> 0]]
EmptyIndex == [language \in AllLanguages |-> <<>>]

----------------------------------------------------------------------------
(* The vocabulary of the properties *)

\* the file at position k has been read and its pass of the loop has ended normally
Accepted(k) == k \in 1..Len(files) /\ k < i
\* the pass over the file at position i has raised
Rejected == pc = "raised" /\ i <= Len(files)

\* the field in which the running loader looks for the categories
CategoryField == IF impl = "load" THEN "kategorias" ELSE "categories"

BadGender(version) ==
    ~Has(version, "gender") \/ version.gender = None \/ version.gender \notin config.gender
BadNumber(version) ==
    ~Has(version, "number") \/ version.number = None \/ version.number \notin config.numero
BadNounVersion(version) == BadGender(version) \/ BadNumber(version)

\* the checks of section 4.1 that a record violates
Violations(data) ==
    {c \in {"grammar", "conjugations", "noun", "origen", "categories", "versions",
            "examples"} :
        \/ c = "grammar"
             /\ (~Has(data, "grammar") \/ data.grammar \notin config.gramatika)
        \/ c = "conjugations" /\ Has(data, "grammar")
             /\ ((data.grammar = "verb") # Has(data, "conjugations"))
        \/ c = "noun" /\ Has(data, "grammar") /\ data.grammar = "noun"
             /\ Has(data, "versions")
             /\ \E k \in 1..Len(data.versions) : BadNounVersion(data.versions[k])
        \/ c = "origen"
             /\ (~Has(data, "origen") \/ data.origen \notin config.origenes)
        \/ c = "categories" /\ Has(data, CategoryField)
             /\ \E k \in 1..Len(data[CategoryField]) :
                    data[CategoryField][k] \notin config.kategorias
        \/ c = "versions" /\ ~Has(data, "versions")
        \/ c = "examples" /\ ~Has(data, "examples")}

CheckOrder ==
    <<"grammar", "conjugations", "noun", "origen", "categories", "versions", "examples">>

FirstViolation(data) ==
    CheckOrder[CHOOSE k \in 1..Len(CheckOrder) :
                  /\ CheckOrder[k] \in Violations(data)
                  /\ \A j \in 1..(k - 1) : CheckOrder[j] \notin Violations(data)]

FirstBadNounVersion(data) ==
    data.versions[CHOOSE k \in 1..Len(data.versions) :
                     /\ BadNounVersion(data.versions[k])
                     /\ \A j \in 1..(k - 1) : ~BadNounVersion(data.versions[j])]

\* the error the documentation gives for a noun version: gender before number
NounError(version, filename) ==
    IF ~Has(version, "gender") \/ version.gender = None
      THEN LadinoError("gender is None", filename, "", "", version)
    ELSE IF version.gender \notin config.gender
      THEN LadinoError("invalid gender", filename, version.gender, "", version)
    ELSE IF ~Has(version, "number") \/ version.number = None
      THEN LadinoError("number is None", filename, "", "", version)
    ELSE LadinoError("invalid number", filename, version.number, "", version)

\* the error of a violated check
ErrorOf(c, data, filename) ==
    CASE c = "grammar" ->
           IF ~Has(data, "grammar")
             THEN LadinoError("grammar missing", filename, "", "", <<>>)
             ELSE LadinoError("invalid grammar", filename, data.grammar, "", <<>>)
      [] c = "conjugations" ->
           IF data.grammar = "verb"
             THEN LadinoError("verb without conjugations", filename, "", "", <<>>)
             ELSE LadinoError("conjugations in non-verb", filename, "", "", <<>>)
      [] c = "noun" -> NounError(FirstBadNounVersion(data), filename)
      [] c = "origen" ->
           IF ~Has(data, "origen")
             THEN LadinoError("origen missing", filename, "", "", <<>>)
             ELSE LadinoError("invalid origen", filename, data.origen, "", <<>>)
      [] c = "categories" ->
           LadinoError("invalid category", filename,
               data[CategoryField][CHOOSE k \in 1..Len(data[CategoryField]) :
                   /\ data[CategoryField][k] \notin config.kategorias
                   /\ \A j \in 1..(k - 1) :
                         data[CategoryField][j] \in config.kategorias],
               "", <<>>)
      [] c = "versions" -> VersionsMissing(filename)
      [] c = "examples" -> ExamplesMissing(filename)

----------------------------------------------------------------------------
(* C1: a record that violates two or more of the checks is rejected with    *)
(* the error of the first of them in the order grammar, verb/conjugations,  *)
(* noun gender/number, origen, categories, versions, examples.              *)
C1_ValidationOrder ==
    (Rejected /\ Cardinality(Violations(files[i].data)) >= 2)
        => err = ErrorOf(FirstViolation(files[i].data), files[i].data, files[i].name)

\* a record that fails a check of the loop over the versions and the examples
BadTranslations(version) ==
    /\ Has(version, "translations")
    /\ \E language \in LanguageSet \cap DOMAIN version.translations :
          version.translations[language].cls \notin {"str", "list"}

BadExample(example) ==
    \/ example.cls = "str"
    \/ \E language \in DOMAIN example.d :
          language \notin {"ladino", "bozes"} \cup LanguageSet

NormalizeInvalid(data) ==
    \/ /\ Has(data, "versions")
       /\ \E k \in 1..Len(data.versions) :
             ~Has(data.versions[k], "ladino") \/ BadTranslations(data.versions[k])
    \/ /\ Has(data, "examples")
       /\ \E k \in 1..Len(data.examples) : BadExample(data.examples[k])

\* a record that fails a check of the loop over the conjugations
ConjugationsInvalid(data) ==
    /\ Has(data, "conjugations")
    /\ \E t \in 1..Len(data.conjugations) :
          \/ data.conjugations[t].tense \notin config.tiempos
          \/ \E p \in 1..Len(data.conjugations[t].forms) :
                LET form == data.conjugations[t].forms[p] IN
                \/ form.pronoun \notin config.pronombres
                \/ ~Has(form.version, "ladino")
                \/ BadTranslations(form.version)

Invalid(data) ==
    Violations(data) # {} \/ NormalizeInvalid(data) \/ ConjugationsInvalid(data)

FirstInvalid ==
    CHOOSE k \in 1..Len(files) :
        Invalid(files[k].data) /\ \A j \in 1..(k - 1) : ~Invalid(files[j].data)

(* C2: when a file of the directory is invalid, load_dictionary raises the  *)
(* validation error of the first invalid file of the listing, returns       *)
(* nothing, and reads no file that comes after it.                          *)
C2_FailFast ==
    (\E k \in 1..Len(files) : Invalid(files[k].data)) =>
        /\ i <= FirstInvalid
        /\ DOMAIN objects \subseteq 1..FirstInvalid
        /\ result = <<>>
        /\ pc # "done"
        /\ pc = "raised" => (err.cls = "LadinoError" /\ err.file = files[FirstInvalid].name)

(* C3: an accepted record has conjugations exactly when its grammar is      *)
(* 'verb'; a record whose one fault is a verb without conjugations, or      *)
(* conjugations without a verb, is rejected with the error of that fault,   *)
(* which names the file.                                                    *)
C3_ConjugationsIffVerb ==
    /\ \A k \in 1..Len(files) :
          Accepted(k) =>
              (Has(files[k].data, "conjugations") <=> files[k].data.grammar = "verb")
    /\ (Rejected /\ Violations(files[i].data) = {"conjugations"})
          => err = ErrorOf("conjugations", files[i].data, files[i].name)

C3_Witness ==
    /\ Rejected
    /\ impl = "load"
    /\ Has(files[i].data, "grammar") /\ files[i].data.grammar = "adjective"
    /\ err.kind = "conjugations in non-verb"

NounKinds == {"gender is None", "invalid gender", "number is None", "invalid number"}

(* C4: every version of an accepted noun has a gender and a number of the   *)
(* configured vocabularies; a noun is rejected for its first version that   *)
(* has not, with an error that carries that version, the gender being       *)
(* checked before the number.                                               *)
C4_NounGenderNumber ==
    /\ \A k \in 1..Len(files) :
          (Accepted(k) /\ files[k].data.grammar = "noun") =>
              \A v \in 1..Len(files[k].data.versions) :
                  ~BadNounVersion(files[k].data.versions[v])
    /\ (Rejected /\ Violations(files[i].data) = {"noun"}) => err.kind \in NounKinds
    /\ (Rejected /\ err.kind \in NounKinds)
          => err = NounError(FirstBadNounVersion(files[i].data), files[i].name)

C4_Witness ==
    /\ Rejected
    /\ err.kind = "invalid gender"
    /\ Len(files[i].data.versions) >= 2
    /\ ~BadNounVersion(files[i].data.versions[1])
    /\ BadNumber(files[i].data.versions[2])
    /\ err.sub = files[i].data.versions[2]

(* C5: a record whose only fault is that it has no 'versions' field is      *)
(* rejected with the LadinoError "The 'versions' field is missing", for     *)
(* every valid grammar, 'noun' included, and with no other exception.       *)
C5_VersionsMissing ==
    \A k \in 1..Len(files) :
        Violations(files[k].data) = {"versions"} =>
            /\ ~Accepted(k)
            /\ (Rejected /\ i = k) => err = VersionsMissing(files[k].name)

----------------------------------------------------------------------------
\* the flat Versions and the examples that come from the file named name
VersionsOf(name) ==
    LET Mine(v) == v.source = name IN SelectSeq(dictionary.words, Mine)
ExamplesOf(name) ==
    LET Mine(e) == e.source = name IN SelectSeq(dictionary.all_examples, Mine)

(* C9: of the flat Versions of an accepted record only the first, the first *)
(* element of 'versions', carries the examples and the comments of the      *)
(* record, and the global example list holds one entry per example, with    *)
(* the lowercased headword of that version and the file name.               *)
C9_ExamplesOnFirstVersion ==
    \A k \in 1..Len(files) :
        Accepted(k) =>
            LET data == files[k].data
                mine == VersionsOf(files[k].name)
                comments == IF Has(data, "comments") THEN data.comments ELSE <<>>
            IN /\ Len(mine) >= Len(data.versions)
               /\ mine[1].ladino = data.versions[1].ladino
               /\ Has(mine[1], "examples") <=> data.examples # <<>>
               /\ data.examples # <<>> => mine[1].examples = data.examples
               /\ Has(mine[1], "comments") <=> comments # <<>>
               /\ comments # <<>> => mine[1].comments = comments
               /\ \A j \in 2..Len(mine) :
                     ~Has(mine[j], "examples") /\ ~Has(mine[j], "comments")
               /\ ExamplesOf(files[k].name) =
                     [j \in 1..Len(data.examples) |->
                        [example |-> data.examples[j],
                         word |-> lower(data.versions[1].ladino),
                         source |-> files[k].name]]

C9_Witness ==
    \E k \in 1..Len(files) :
        /\ Accepted(k)
        /\ Len(files[k].data.examples) = 2
        /\ Len(files[k].data.versions) = 2
        /\ Has(files[k].data, "comments") /\ files[k].data.comments # <<>>
        /\ files[k].data.versions[1].ladino = 1
        /\ Len(dictionary.all_examples) = 2

(* C10: a verb is accepted only if every tense of its conjugations is in    *)
(* the tense vocabulary of the Configuration and every pronoun in its       *)
(* pronoun vocabulary; a tense is refused only when it is outside the       *)
(* configured vocabulary, with an error naming the tense and the file.      *)
C10_ConfiguredTenses ==
    /\ \A k \in 1..Len(files) :
          (Accepted(k) /\ Has(files[k].data, "conjugations")) =>
              \A t \in 1..Len(files[k].data.conjugations) :
                  /\ files[k].data.conjugations[t].tense \in config.tiempos
                  /\ \A p \in 1..Len(files[k].data.conjugations[t].forms) :
                        files[k].data.conjugations[t].forms[p].pronoun
                            \in config.pronombres
    /\ (Rejected /\ err.kind = "conjugation time not recognized") =>
          /\ err.value \notin config.tiempos
          /\ err.file = files[i].name
          /\ \E t \in 1..Len(files[i].data.conjugations) :
                files[i].data.conjugations[t].tense = err.value

----------------------------------------------------------------------------
(* collect_data as a state machine: one step per entry of dictionary_source *)

IdleLoader ==
    /\ config = <<>> /\ files = <<>> /\ impl = "" /\ pc = "idle" /\ i = 0
    /\ dictionary = <<>> /\ objects = <<>> /\ err = NoError /\ result = <<>>

\* flat Versions as load_dictionary returns them: a source, translations coerced
EntryTranslations ==
    {[english |-> PyList(<<2>>)],
     [english |-> PyList(<<1>>), french |-> PyList(<<lower(2)>>)],
     [english |-> PyList(<<lower(1), 1>>)],
     [french |-> PyList(<<1>>)],
     [english |-> PyList(<<>>)]}

Entries ==
    {[ladino |-> w, source |-> 1] @@ t :
        w \in {1, lower(1), 2}, t \in Opt("translations", EntryTranslations)}
      \cup {[ladino |-> 1, source |-> 1, accented |-> 2,
             translations |-> [english |-> PyList(<<2>>)]]
               @@ ("alternative-spelling" :> <<[ladino |-> 2]>>),
            [ladino |-> 1, source |-> 1,
             translations |-> [english |-> PyList(<<1>>), hebrew |-> PyList(<<2>>)]]
               @@ ("alternative-spelling" :> <<[ladino |-> lower(1), accented |-> 1]>>),
            [ladino |-> lower(2), source |-> 1, examples |-> <<Ex1, ExNoLadino>>,
             comments |-> <<1>>, translations |-> [english |-> PyList(<<2, 1>>)]],
            [ladino |-> 2, source |-> 1, gender |-> "feminine", number |-> "plural",
             translations |-> [english |-> PyList(<<1>>), french |-> PyList(<<1>>)]]}

InitCollect ==
    /\ IdleLoader
    /\ mk = IdleMk
    /\ runs = <<>>
    /\ source \in SeqsOf(Entries, 0, MaxEntries)
    /\ ci = 1
    /\ index = EmptyIndex
    /\ count = EmptyCount
    /\ pages = EmptyIndex
    /\ cpc = "collecting"
    /\ cerr = NoError

\* generate.py 360-368
CollectEntry ==
    /\ cpc = "collecting" /\ ci <= Len(source)
    /\ LET st == collect_entry([index |-> index, pages |-> pages, count |-> count,
                                err |-> NoError], source[ci])
       IN /\ index' = st.index
          /\ pages' = st.pages
          /\ count' = st.count
          /\ IF st.err = NoError
               THEN ci' = ci + 1 /\ UNCHANGED <<cpc, cerr>>
               ELSE cpc' = "raised" /\ cerr' = st.err /\ UNCHANGED ci
    /\ UNCHANGED <<source, mk, runs>>
    /\ UNCHANGED loaderVars

\* generate.py 370
CollectReturn ==
    /\ cpc = "collecting" /\ ci > Len(source)
    /\ cpc' = "done"
    /\ UNCHANGED <<source, ci, index, count, pages, cerr, mk, runs>>
    /\ UNCHANGED loaderVars

NextCollect == CollectEntry \/ CollectReturn

SpecCollect == InitCollect /\ [][NextCollect]_vars

----------------------------------------------------------------------------
(* The coercion applied to a translation value, and again to its own result *)

InitCoerce ==
    /\ IdleLoader
    /\ IdleCollect
    /\ mk \in {[input |-> v, translations |-> (language :> v), language |-> language,
                filename |-> f, out |-> <<>>] :
                  v \in TranslationValues, language \in LanguageSet, f \in FileNames}
    /\ runs = <<>>

\* load.py 74: translations[language] = make_it_list(translations, language, filename)
Coerce ==
    /\ Len(mk.out) < 2
    /\ Len(mk.out) = 1 => mk.out[1].err = NoError
    /\ LET r == make_it_list(mk.translations, mk.language, mk.filename) IN
       mk' = [mk EXCEPT !.out = Append(@, r),
                        !.translations = IF r.err = NoError
                                           THEN Put(@, mk.language, r.val) ELSE @]
    /\ UNCHANGED runs
    /\ UNCHANGED loaderVars
    /\ UNCHANGED collectVars

NextCoerce == Coerce

SpecCoerce == InitCoerce /\ [][NextCoerce]_vars

----------------------------------------------------------------------------
(* C6: the coercion maps the empty string to the empty list, a string s to  *)
(* the list [s], a list to itself and any other value to an error naming    *)
(* its type, the language and the file; applied to its own result it        *)
(* returns that result.                                                     *)
C6_Coercion ==
    /\ Len(mk.out) >= 1 =>
         LET v == mk.input
             r == mk.out[1]
         IN /\ (v.cls = "str" /\ v.s = EmptyStr) => (r.err = NoError /\ r.val = PyList(<<>>))
            /\ (v.cls = "str" /\ v.s # EmptyStr) => (r.err = NoError /\ r.val = PyList(<<v.s>>))
            /\ v.cls = "list" => (r.err = NoError /\ r.val = v)
            /\ v.cls \notin {"str", "list"} =>
                  /\ r.err.cls = "LadinoError"
                  /\ r.err.value = v.cls
                  /\ r.err.lang = mk.language
                  /\ r.err.file = mk.filename
    /\ Len(mk.out) = 2 => mk.out[2] = mk.out[1]

C6_Witness ==
    /\ Len(mk.out) = 2
    /\ mk.input.cls = "str" /\ mk.input.s # EmptyStr
    /\ mk.out[2].val = PyList(<<mk.input.s>>)

----------------------------------------------------------------------------
\* the entries collect_data has gone through
Processed == {k \in 1..Len(source) : k < ci}

(* C7: after collect_data the lookup works in both directions: a target t   *)
(* of Ladino word w in language L has, under lowercase(t) in L's index, a   *)
(* Ladino word that lowercases to w; and a headword h under u in L's index  *)
(* has, under lowercase(h) in the Ladino index, a target of L that          *)
(* lowercases to u.  Alternative spellings included.                        *)
C7_BothDirections ==
    cpc = "done" =>
        /\ \A w \in DOMAIN index.ladino :
             \A L \in LanguageSet \cap DOMAIN index.ladino[w] :
               \A t \in Range(index.ladino[w][L]) :
                 /\ Has(index[L], lower(t))
                 /\ \E h \in Range(index[L][lower(t)]) : lower(h) = w
        /\ \A L \in LanguageSet :
             \A u \in DOMAIN index[L] :
               \A h \in Range(index[L][u]) :
                 /\ Has(index.ladino, lower(h))
                 /\ Has(index.ladino[lower(h)], L)
                 /\ \E t \in Range(index.ladino[lower(h)][L]) : lower(t) = u

----------------------------------------------------------------------------
\* how many times collect_data registers entry under the Ladino word w
Registrations(entry, w) ==
    (IF lower(entry.ladino) = w THEN 1 ELSE 0)
      + (IF Has(entry, "alternative-spelling")
           THEN Cardinality({a \in 1..Len(entry["alternative-spelling"]) :
                                lower(entry["alternative-spelling"][a].ladino) = w})
           ELSE 0)

(* C8: after every insertion, the page list of a Ladino word w holds every  *)
(* entry registered under w, homographs in one list, in ascending order of  *)
(* (headword as written, first English translation).                        *)
C8_LadinoPages ==
    cpc \in {"collecting", "done"} =>
        /\ \A k \in Processed :
             \A w \in {lower(x) : x \in Words} :
               Registrations(source[k], w) > 0 =>
                   (Has(pages.ladino, w) /\ source[k] \in Range(pages.ladino[w]))
        /\ \A w \in DOMAIN pages.ladino :
             LET page == pages.ladino[w] IN
             /\ Len(page) = SumFn([k \in Processed |-> Registrations(source[k], w)])
             /\ \A a, b \in 1..Len(page) :
                  a < b =>
                    \/ page[a].ladino < page[b].ladino
                    \/ /\ page[a].ladino = page[b].ladino
                       /\ page[a].translations.english.l[1]
                            <= page[b].translations.english.l[1]

C8_Witness ==
    /\ cpc = "done"
    /\ Len(source) = 2
    /\ lower(source[1].ladino) = lower(source[2].ladino)
    /\ source[2].ladino < source[1].ladino
    /\ pages.ladino[lower(source[1].ladino)] = <<source[2], source[1]>>

----------------------------------------------------------------------------
(* The pipeline of generate.py main: load_dictionary, then collect_data on  *)
(* the flat Versions it returns; run once more on the same files in another *)
(* order of the directory listing.                                          *)

\* records that both loaders accept under every Configuration of the model
PipelineRecords ==
    {[grammar |-> "adjective", origen |-> "hebrew", examples |-> <<>>,
      versions |-> <<[ladino |-> 1,
                      translations |-> [english |-> PyStr(2), french |-> PyStr(2)]]>>],
     [grammar |-> "adjective", origen |-> "hebrew", examples |-> <<>>,
      versions |-> <<[ladino |-> 2,
                      translations |-> [english |-> PyStr(2), french |-> PyStr(1)]]>>],
     [grammar |-> "adjective", origen |-> "spanish", examples |-> <<Ex1>>,
      versions |-> <<[ladino |-> lower(1),
                      translations |-> [english |-> PyList(<<1, lower(2)>>)]]>>],
     [grammar |-> "noun", origen |-> "hebrew", examples |-> <<Ex2>>,
      versions |-> <<OkVersion>>],
     [grammar |-> "verb", origen |-> "spanish", examples |-> <<>>,
      conjugations |->
          <<[tense |-> "present indicative",
             forms |-> <<Form("yo", [ladino |-> lower(2),
                                     translations |-> [english |-> PyStr(1)]])>>]>>,
      versions |-> <<[ladino |-> 2, translations |-> [english |-> PyStr(lower(1))]]>>],
     [grammar |-> "adjective", origen |-> "hebrew", examples |-> <<>>,
      versions |-> <<[ladino |-> 2]>>],
     [grammar |-> "adjective", origen |-> "hebrew", examples |-> <<>>,
      versions |-> <<[ladino |-> 1, translations |-> [french |-> PyStr(2)]]>>],
     [grammar |-> "adjective", origen |-> "hebrew", examples |-> <<>>,
      versions |-> <<[ladino |-> 1, translations |-> [english |-> PyStr(EmptyStr)]]>>],
     [grammar |-> "verb", origen |-> "spanish", examples |-> <<>>,
      conjugations |->
          <<[tense |-> "present indicative",
             forms |-> <<Form("yo", [ladino |-> lower(2)])>>]>>,
      versions |-> <<[ladino |-> 2, translations |-> [english |-> PyStr(1)]]>>]}

\* the orders in which os.listdir may yield the same files
ListingOrders(seq) ==
    {[k \in 1..Len(seq) |-> seq[p[k]]] :
        p \in {q \in [1..Len(seq) -> 1..Len(seq)] :
                  \A a, b \in 1..Len(seq) : a # b => q[a] # q[b]}}

InitPipeline ==
    /\ config \in Configs
    /\ impl \in {"load", "generate"}
    /\ files \in {Listing(rs) : rs \in SeqsOf(PipelineRecords, 1, MaxFiles)}
    /\ pc = "loading"
    /\ i = 1
    /\ dictionary = IF impl = "load" THEN Dictionary(config)
                                     ELSE [words |-> <<>>, all_examples |-> <<>>]
    /\ objects = <<>>
    /\ err = NoError
    /\ result = <<>>
    /\ mk = IdleMk
    /\ runs = <<>>
    /\ IdleCollect

\* generate.py 483: collect_data(dictionary_source), and its lines 347-358
StartCollect ==
    /\ pc = "done" /\ cpc = "idle"
    /\ source' = result[1].words
    /\ ci' = 1
    /\ index' = EmptyIndex
    /\ count' = EmptyCount
    /\ pages' = EmptyIndex
    /\ cpc' = "collecting"
    /\ UNCHANGED <<cerr, mk, runs>>
    /\ UNCHANGED loaderVars

\* what generate.py 483 receives from collect_data
Outcome == [index |-> index, count |-> count, pages |-> pages]

\* the first run has ended: the program is run again, the listing in any order
Rerun ==
    /\ cpc = "done" /\ runs = <<>>
    /\ runs' = <<Outcome>>
    /\ files' \in ListingOrders(files)
    /\ pc' = "loading"
    /\ i' = 1
    /\ dictionary' = IF impl = "load" THEN Dictionary(config)
                                      ELSE [words |-> <<>>, all_examples |-> <<>>]
    /\ objects' = <<>>
    /\ result' = <<>>
    /\ source' = <<>> /\ ci' = 0 /\ index' = <<>> /\ count' = <<>> /\ pages' = <<>>
    /\ cpc' = "idle"
    /\ UNCHANGED <<config, impl, err, cerr, mk>>

\* the second run has ended
LastRun ==
    /\ cpc = "done" /\ Len(runs) = 1
    /\ runs' = Append(runs, Outcome)
    /\ UNCHANGED <<mk, source, ci, index, count, pages, cpc, cerr>>
    /\ UNCHANGED loaderVars

NextPipeline ==
    \/ LoadFile \/ LoadReturn \/ GenerateLoadFile \/ GenerateLoadReturn
    \/ StartCollect \/ CollectEntry \/ CollectReturn
    \/ Rerun \/ LastRun

SpecPipeline == InitPipeline /\ [][NextPipeline]_vars

(* C11: two runs of the pipeline on the same valid files give the same      *)
(* translation index, the same page lists in the same order and the same    *)
(* counts, whatever the order in which the directory listing yields the     *)
(* files.                                                                   *)
C11_ListingOrderIndependent ==
    Len(runs) = 2 => runs[1] = runs[2]

----------------------------------------------------------------------------
\* a list of words in ascending order with no word twice
StrictlyAscending(l) == \A a, b \in 1..Len(l) : a < b => l[a] < l[b]

(* C12: whatever collect_data has inserted so far, every list of the index, *)
(* index['ladino'][w][L] for every key L ('ladino' and 'accented' too) and  *)
(* index[L][u] for every foreign language L, is in ascending order and      *)
(* holds no word twice.                                                     *)
C12_IndexSortedNoDuplicates ==
    cpc # "idle" =>
        /\ \A w \in DOMAIN index.ladino :
             \A L \in DOMAIN index.ladino[w] : StrictlyAscending(index.ladino[w][L])
        /\ \A L \in LanguageSet :
             \A u \in DOMAIN index[L] : StrictlyAscending(index[L][u])

C12_Witness ==
    /\ cpc = "done"
    /\ Len(source) = 2
    /\ source[1].ladino = lower(1) /\ source[2].ladino = 1
    /\ \A k \in 1..2 : /\ Has(source[k], "translations")
                       /\ Has(source[k].translations, "english")
                       /\ source[k].translations.english.l = <<lower(1), 1>>
    /\ index.ladino[lower(1)].english = <<1, lower(1)>>
    /\ index.ladino[lower(1)].ladino = <<1, lower(1)>>
    /\ index.english[lower(1)] = <<1, lower(1)>>

----------------------------------------------------------------------------
\* the conjugated forms of a record, tense after tense, pronoun after pronoun
RECURSIVE FormsFrom(_, _)
FormsFrom(t, conjs) ==
    IF t > Len(conjs) THEN <<>>
    ELSE [p \in 1..Len(conjs[t].forms) |-> conjs[t].forms[p].version]
           \o FormsFrom(t + 1, conjs)

FormsOf(data) ==
    IF Has(data, "conjugations") THEN FormsFrom(1, data.conjugations) ELSE <<>>

\* how many flat Versions the accepted files before the file at position k gave
VersionsBefore(k) ==
    SumFn([j \in 1..(k - 1) |->
              Len(files[j].data.versions) + Len(FormsOf(files[j].data))])

(* C13: the flat Versions of an accepted verb are its base versions in      *)
(* their order, followed at once by one Version for every (tense, pronoun)  *)
(* of its conjugations, tenses in insertion order and pronouns in insertion *)
(* order within a tense; each has the file name as source, and the record   *)
(* has no other flat Version.                                               *)
C13_ConjugationExpansion ==
    \A k \in 1..Len(files) :
        (Accepted(k) /\ files[k].data.grammar = "verb") =>
            LET data == files[k].data
                expected == data.versions \o FormsOf(data)
                off == VersionsBefore(k)
            IN /\ Len(dictionary.words) >= off + Len(expected)
               /\ \A j \in 1..Len(expected) :
                     LET version == dictionary.words[off + j] IN
                     /\ version.ladino = expected[j].ladino
                     /\ version.source = files[k].name
                     /\ Has(version, "translations") <=> Has(expected[j], "translations")
               /\ VersionsOf(files[k].name)
                     = SubSeq(dictionary.words, off + 1, off + Len(expected))

C13_Witness ==
    \E k \in 1..Len(files) :
        /\ Accepted(k)
        /\ files[k].data.grammar = "verb"
        /\ Len(files[k].data.conjugations) = 2
        /\ Len(dictionary.words) = 3
        /\ dictionary.words[1].ladino = 1
        /\ dictionary.words[2].ladino = lower(1)
        /\ dictionary.words[3].ladino = 2

----------------------------------------------------------------------------
(* C14: every example of the global example list of a Dictionary that was   *)
(* returned is a mapping whose keys are 'ladino', 'bozes' or known          *)
(* languages, and no accepted record has, among its examples, a bare string *)
(* or an example with another key.                                          *)
C14_ExamplesWellFormed ==
    /\ pc = "done" =>
          \A k \in 1..Len(result[1].all_examples) :
              ~BadExample(result[1].all_examples[k].example)
    /\ \A k \in 1..Len(files) :
          Accepted(k) =>
              \A j \in 1..Len(files[k].data.examples) :
                  ~BadExample(files[k].data.examples[j])
    /\ (Rejected /\ err.kind \in {"example is a string", "incorrect language in example"})
          => (err.cls = "LadinoError" /\ BadExample(err.sub))

----------------------------------------------------------------------------
\* the primary headword of the file at position k, and its English translations
Headword(k) == files[k].data.versions[1].ladino
EnglishOf(name) == objects[name].versions[1].translations.english.l
PositionOf(name) == CHOOSE k \in 1..Len(files) : files[k].name = name

\* the files of the listing that belong to the list lst, to the category cat
ListMembers(lst) ==
    {files[k].name : k \in {j \in 1..Len(files) : InList(config.listas[lst], Headword(j))}}
CategoryMembers(cat) ==
    {files[k].name : k \in {j \in 1..Len(files) :
        /\ Has(files[j].data, CategoryField)
        /\ cat \in Range(files[j].data[CategoryField])}}

(* C15: when load_dictionary of load.py has returned, the list l of the     *)
(* Dictionary holds exactly the records whose primary headword is in the    *)
(* curated words of l, in the order of those words, and the category c      *)
(* holds exactly the records that declare c, in the order of (primary       *)
(* headword, first English translation).                                    *)
C15_ListsAndCategories ==
    (pc = "done" /\ impl = "load") =>
        /\ \A lst \in DOMAIN config.listas :
             LET group == result[1].lists[lst] IN
             /\ Range(group) = ListMembers(lst)
             /\ Len(group) = Cardinality(ListMembers(lst))
             /\ \A a, b \in 1..Len(group) :
                  a < b => lookup(config.listas[lst], Headword(PositionOf(group[a])))
                             <= lookup(config.listas[lst], Headword(PositionOf(group[b])))
        /\ \A cat \in config.kategorias :
             LET group == result[1].categories[cat] IN
             /\ Range(group) = CategoryMembers(cat)
             /\ Len(group) = Cardinality(CategoryMembers(cat))
             /\ \A a, b \in 1..Len(group) :
                  a < b =>
                    LET ha == Headword(PositionOf(group[a]))
                        hb == Headword(PositionOf(group[b]))
                        ea == EnglishOf(group[a])
                        eb == EnglishOf(group[b])
                    IN \/ ha < hb
                       \/ /\ ha = hb
                          /\ (Len(ea) = 0 \/ (Len(eb) > 0 /\ ea[1] <= eb[1]))

C15_Witness ==
    /\ pc = "done" /\ impl = "load"
    /\ Len(files) = 2
    /\ Headword(1) = 1 /\ Headword(2) = lower(2)
    /\ result[1].lists.basic = <<files[2].name, files[1].name>>
    /\ result[1].categories.animals = <<files[1].name, files[2].name>>

----------------------------------------------------------------------------
(* C16: when load_dictionary has returned, in every flat Version that has   *)
(* translations, base or conjugated, the value under every key of the       *)
(* mapping is a list: no value of another shape is left in place.           *)
C16_TranslationsAreLists ==
    pc = "done" =>
        \A k \in 1..Len(result[1].words) :
            LET version == result[1].words[k] IN
            Has(version, "translations") =>
                \A language \in DOMAIN version.translations :
                    version.translations[language].cls = "list"

----------------------------------------------------------------------------
(* C17: collect_data, given the flat Versions that load_dictionary has      *)
(* returned, ends without an exception, also when a base version or a       *)
(* conjugated form has no translations, no English translation or an empty  *)
(* list of English translations.                                            *)
C17_CollectCompletes ==
    pc = "done" => (cpc # "raised" /\ cerr = NoError)

----------------------------------------------------------------------------
\* how many times the entry is in the page list
Occurrences(page, entry) == Cardinality({j \in 1..Len(page) : page[j] = entry})

(* C18: whatever collect_data has inserted so far, no page list, of any     *)
(* language and word, holds the same entry more than once: an entry is in   *)
(* a page at most as many times as dictionary_source holds it.              *)
C18_NoEntryTwice ==
    cpc # "idle" =>
        \A L \in AllLanguages :
            \A w \in DOMAIN pages[L] :
                \A entry \in Range(pages[L][w]) :
                    Occurrences(pages[L][w], entry)
                        <= Cardinality({k \in 1..Len(source) : source[k] = entry})

====
